---- MODULE Spec2Model ----
(***************************************************************************)
(* gitfeet (src/src/main.rs): the document registry (BlogPosts), the       *)
(* history walk of main() that attributes first/last touch to the tracked  *)
(* documents, the selection get_n_latest and the assembly of the feed.     *)
(*                                                                         *)
(* Paths are the numbers 1..NumPaths: the number of a path is its rank in  *)
(* the byte order of the path strings, the order in which the BTreeMap     *)
(* keeps its keys.  Commit times are integers; the revision walk is sorted *)
(* by Sort::TIME | Sort::REVERSE, so the time of each yielded commit is    *)
(* the time of the one before it or later (only the order of the times     *)
(* matters to the program, so the next time is the same or one more).      *)
(***************************************************************************)
EXTENDS Integers, Sequences, FiniteSets

VARIABLES pc, posts, now, nyield, walkErr, changed, log, selected, entries, uninitRead, out

\* pc         where main() is: "scan", "open", "walk", "head", "entries", and
\*            the ends "done" (Ok(())), "error" (an Err returned through `?`),
\*            "panic" (an unwrap or index that panics) and "crash"
\* posts      the BlogPosts registry: path -> BlogPost
\* now        the time of the commit the revision walk yielded last
\* nyield     the number of items the revision walk has yielded
\* walkErr    the revision walk has yielded an Err item
\* changed    the paths the visited commits change (what can be in HEAD)
\* log        the visited commits in walk order (kept under SpecWalk only)
\* selected   the result of get_n_latest(20): references to records, as keys
\* entries    the EntryCtx values built so far
\* uninitRead the paths of the records whose latest or author was read
\*            without ever having been written
\* out        standard output: None, or Some(entries of the printed feed)
vars == <<pc, posts, now, nyield, walkErr, changed, log, selected, entries, uninitRead, out>>

\* ---------------------------------------------------------------- bounds
\* Number of distinct paths (directory entries and changed files).
NumPaths == 2
\* Number of items the revision walk yields at most.
MaxCommits == 2

\* ------------------------------------------------------------- constants
\* main.rs:143  posts.get_n_latest(20)
TopN == 20

Paths == 1..NumPaths

\* Option<T>: None is the empty sequence, Some(x) the sequence of x alone
None == << >>
Some(x) == <<x>>
\* MaybeUninit<T>: uninit() is the empty sequence (no value was written), and a
\* value written through as_mut_ptr().write(x) the sequence of x alone
Uninit == << >>
Written(x) == <<x>>

\* git2 Signature: (name, email), each an Option<&str>
Authors == { [name |-> Some("alice"), email |-> Some("alice@example.org")],
             [name |-> None,          email |-> Some("bob@example.org")] }

Max(S) == CHOOSE m \in S : \A x \in S : x <= m
Min(S) == CHOOSE m \in S : \A x \in S : m <= x

\* The elements of a set of paths in ascending order (BTreeMap::iter, and the
\* order of the deltas of a git diff, which is sorted by path).
RECURSIVE Ascending(_)
Ascending(S) == IF S = {} THEN <<>>
                ELSE LET m == Min(S) IN <<m>> \o Ascending(S \ {m})

\* ------------------------------------------------------------ BlogPosts
\* BlogPosts::new
NewPosts == << >>

\* BlogPosts::insert_uninit: BTreeMap::insert adds the key or replaces its value
insert_uninit(reg, path) ==
    LET post == [path |-> path, initial |-> None, latest |-> Uninit, author |-> Uninit]
    IN  [k \in (DOMAIN reg) \cup {path} |-> IF k = path THEN post ELSE reg[k]]

\* owned_paths.iter().for_each(|path| posts.insert_uninit(path))
RECURSIVE InsertAll(_, _)
InsertAll(reg, paths) ==
    IF paths = <<>> THEN reg
    ELSE InsertAll(insert_uninit(reg, Head(paths)), Tail(paths))

\* Mutant of get_mut: the lookup finds every record, whatever the path.
get_mut_any(reg, path) == DOMAIN reg

\* BlogPosts::get_mut: the keys under which a record is found
get_mut(reg, path) == IF path \in DOMAIN reg THEN {path} ELSE {}

\* .iter().rev(): the keys in descending order
RECURSIVE Descending(_)
Descending(S) == IF S = {} THEN <<>>
                 ELSE LET m == Max(S) IN <<m>> \o Descending(S \ {m})

\* .take(n)
Take(s, n) == SubSeq(s, 1, IF n < Len(s) THEN n ELSE Len(s))

\* Mutant of get_n_latest: iter() without rev().
get_n_first(reg, n) == Take(Ascending(DOMAIN reg), n)

\* BlogPosts::get_n_latest: references to records, given here by their keys
get_n_latest(reg, n) == Take(Descending(DOMAIN reg), n)

\* ------------------------------------------------------------ the walk
\* Mutants of Qualifies: a merge commit, or the root commit, is diffed as well.
QualifiesMerge(commit) == commit.parents >= 1
QualifiesRoot(commit) == commit.parents <= 1

\* main.rs:122  if commit.parent_count() == 1
Qualifies(commit) == commit.parents = 1

\* Mutants of Touch: initial is written with insert instead of get_or_insert;
\* latest and author are written on the first touch only; author is not written.
TouchInsert(post, time, author) ==
    [post EXCEPT !.initial = Some(time),
                 !.latest  = Written(time),
                 !.author  = Written(author)]
TouchFirstOnly(post, time, author) ==
    IF post.initial = None
    THEN [post EXCEPT !.initial = Some(time),
                      !.latest  = Written(time),
                      !.author  = Written(author)]
    ELSE post
TouchNoAuthor(post, time, author) ==
    [post EXCEPT !.initial = IF post.initial = None THEN Some(time) ELSE post.initial,
                 !.latest  = Written(time)]

\* main.rs:130-136  the update of one record found by get_mut
Touch(post, time, author) ==
    [post EXCEPT !.initial = IF post.initial = None THEN Some(time) ELSE post.initial,
                 !.latest  = Written(time),
                 !.author  = Written(author)]

\* main.rs:127-138  for delta in diff.deltas(), over the deltas that have a path
RECURSIVE ApplyDeltas(_, _, _)
ApplyDeltas(reg, deltas, commit) ==
    IF deltas = <<>> THEN reg
    ELSE LET path == Head(deltas)
             reg2 == [k \in DOMAIN reg |->
                        IF k \in get_mut(reg, path)
                        THEN Touch(reg[k], commit.time, commit.author)
                        ELSE reg[k]]
         IN  ApplyDeltas(reg2, Tail(deltas), commit)

\* The commits of time t: parent_count, time, author and, in paths, the
\* new-side paths of the files the commit changes (for a single-parent commit
\* the deltas of its diff against its parent).  The author of a commit with
\* no or several parents is never read (main.rs:131 is not reached for it),
\* so one author stands for all of them there.
Commits(t) ==
    [parents : {1}, time : {t}, author : Authors, paths : SUBSET Paths]
    \cup [parents : {0, 2}, time : {t},
          author : {[name |-> Some("alice"), email |-> Some("alice@example.org")]},
          paths : SUBSET Paths]

\* Mutant of NextTimes: Sort::TIME without Sort::REVERSE, newest commit first.
NextTimesNewestFirst(t) == {t, t - 1}

\* main.rs:115-117  Sort::TIME | Sort::REVERSE: the commit yielded after one of
\* time t has time t or a later time
NextTimes(t) == {t, t + 1}

Init ==
    /\ pc = "scan"
    /\ posts = NewPosts
    /\ now = 1
    /\ nyield = 0
    /\ walkErr = FALSE
    /\ changed = {}
    /\ log = <<>>
    /\ selected = <<>>
    /\ entries = <<>>
    /\ uninitRead = {}
    /\ out = None

\* main.rs:108-110  read_dir succeeds; insert_uninit of every directory entry
ScanDir ==
    /\ pc = "scan"
    /\ \E dir \in SUBSET Paths :
          /\ posts' = InsertAll(posts, Ascending(dir))
          /\ pc' = "open"
    /\ UNCHANGED <<now, nyield, walkErr, changed, log, selected, entries, uninitRead, out>>

\* main.rs:108  read_dir("content/")? returns the error from main
ScanFail ==
    /\ pc = "scan"
    /\ pc' = "error"
    /\ UNCHANGED <<posts, now, nyield, walkErr, changed, log, selected, entries, uninitRead, out>>

\* main.rs:113-118  Repository::open, revwalk, set_sorting, push_head succeed
OpenRepo ==
    /\ pc = "open"
    /\ pc' = "walk"
    /\ UNCHANGED <<posts, now, nyield, walkErr, changed, log, selected, entries, uninitRead, out>>

\* main.rs:113-118  one of them returns an error: `?` returns it from main
OpenFail ==
    /\ pc = "open"
    /\ pc' = "error"
    /\ UNCHANGED <<posts, now, nyield, walkErr, changed, log, selected, entries, uninitRead, out>>

\* main.rs:120  the revision walk yields Err for an item: filter_map(|commit|
\* commit.ok()) drops it and the loop goes on with the next item
RevwalkErr ==
    /\ pc = "walk"
    /\ nyield < MaxCommits
    /\ nyield' = nyield + 1
    /\ walkErr' = TRUE
    /\ UNCHANGED <<pc, posts, now, changed, log, selected, entries, uninitRead, out>>

\* main.rs:121  repo.find_commit(commit)? returns the error from main
FindCommitFail ==
    /\ pc = "walk"
    /\ nyield < MaxCommits
    /\ nyield' = nyield + 1
    /\ pc' = "error"
    /\ UNCHANGED <<posts, now, walkErr, changed, log, selected, entries, uninitRead, out>>

\* The log of the commits the loop body has run for, kept when `keep`.
Logged(keep, commit) == IF keep THEN Append(log, commit) ELSE log

\* main.rs:121-139  the loop body for one commit whose calls all succeed and
\* whose deltas all have a path
Visit(keep, commit) ==
    /\ posts' = IF Qualifies(commit)
                THEN ApplyDeltas(posts, Ascending(commit.paths), commit)
                ELSE posts
    /\ now' = commit.time
    /\ changed' = changed \cup commit.paths
    /\ log' = Logged(keep, commit)
    /\ nyield' = nyield + 1
    /\ UNCHANGED <<pc, walkErr, selected, entries, uninitRead, out>>

\* main.rs:120-140  one iteration of the loop, for any commit the walk can yield
VisitCommit(keep) ==
    /\ pc = "walk"
    /\ nyield < MaxCommits
    /\ \E t \in NextTimes(now) : \E commit \in Commits(t) : Visit(keep, commit)

\* main.rs:123-126  commit.parent(0)?, tree()? or diff_tree_to_tree(..)? returns
\* the error from main
DiffFail ==
    /\ pc = "walk"
    /\ nyield < MaxCommits
    /\ \E t \in NextTimes(now) : \E commit \in Commits(t) : Qualifies(commit)
    /\ nyield' = nyield + 1
    /\ pc' = "error"
    /\ UNCHANGED <<posts, now, walkErr, changed, log, selected, entries, uninitRead, out>>

\* main.rs:128  delta.new_file().path().unwrap() panics on a delta without a
\* path, after the deltas before it were applied
DeltaPanic ==
    /\ pc = "walk"
    /\ nyield < MaxCommits
    /\ \E t \in NextTimes(now) : \E commit \in Commits(t) :
          /\ Qualifies(commit)
          /\ \E j \in 0..Cardinality(commit.paths) :
                posts' = ApplyDeltas(posts, SubSeq(Ascending(commit.paths), 1, j), commit)
    /\ nyield' = nyield + 1
    /\ pc' = "panic"
    /\ UNCHANGED <<now, walkErr, changed, log, selected, entries, uninitRead, out>>

\* Mutant of EndWalk: the selection takes the records out of the registry
\* instead of borrowing them.
EndWalkTaking ==
    /\ pc = "walk"
    /\ nyield >= 1
    /\ selected' = get_n_latest(posts, TopN)
    /\ posts' = [k \in {} |-> posts[k]]
    /\ pc' = "head"
    /\ UNCHANGED <<now, nyield, walkErr, changed, log, entries, uninitRead, out>>

\* main.rs:120,143  the revision walk is exhausted; posts.get_n_latest(20).
\* push_head succeeded (main.rs:118), so HEAD is a commit and the walk has
\* yielded an item for it.
EndWalk ==
    /\ pc = "walk"
    /\ nyield >= 1
    /\ selected' = get_n_latest(posts, TopN)
    /\ pc' = "head"
    /\ UNCHANGED <<posts, now, nyield, walkErr, changed, log, entries, uninitRead, out>>

\* main.rs:145  repo.head()?.peel_to_tree()? succeeds
ResolveHead ==
    /\ pc = "head"
    /\ pc' = "entries"
    /\ UNCHANGED <<posts, now, nyield, walkErr, changed, log, selected, entries, uninitRead, out>>

\* main.rs:145  repo.head()? or peel_to_tree()? returns the error from main
HeadFail ==
    /\ pc = "head"
    /\ pc' = "error"
    /\ UNCHANGED <<posts, now, nyield, walkErr, changed, log, selected, entries, uninitRead, out>>

\* main.rs:154-174  what the closure does for one selected record, in the order
\* of its statements and of the fields of the EntryCtx literal.  inHead: the
\* path is in the tree of HEAD; readable: read_to_string succeeds; titled: the
\* file stem has a second '.'-separated part.
EntryOutcome(post, inHead, readable, titled) ==
    IF ~inHead THEN "panic"                              \* 155 get_path(..).unwrap()
    ELSE IF ~readable THEN "panic"                       \* 158 read_to_string(..).unwrap()
    ELSE IF ~titled THEN "panic"                         \* 165 split('.')..[1]
    ELSE IF post.latest = Uninit THEN "uninit"           \* 166 &*post.latest.as_ptr()
    ELSE IF post.author = Uninit THEN "uninit"           \* 156,168 &*post.author.as_ptr()
    ELSE IF post.author[1].name = None THEN "panic"      \* 168 name.as_ref().unwrap()
    ELSE IF post.author[1].email = None THEN "panic"     \* 169 email.as_ref().unwrap()
    ELSE IF post.initial = None THEN "panic"             \* 173 post.initial.unwrap()
    ELSE "ok"

\* main.rs:163-174  the EntryCtx of a record whose fields were all written
EntryCtx(post) ==
    [path      |-> post.path,
     updated   |-> post.latest[1],
     author    |-> [name |-> post.author[1].name[1], email |-> post.author[1].email[1]],
     published |-> post.initial[1]]

\* A file can be in the tree of HEAD only if a commit of the history put it
\* there: a visited commit that changes the path, or one the walk dropped.
CanBeInHead(path) == path \in changed \/ walkErr

\* main.rs:153-175  the closure for the next selected record.  A read of a
\* field that was never written is undefined behaviour: the value read is
\* arbitrary, and the run ends in a panic (to_chrono, unwrap of the name, or
\* at the latest post.initial.unwrap()) or in a crash.
BuildEntry ==
    /\ pc = "entries"
    /\ Len(entries) < Len(selected)
    /\ LET path == selected[Len(entries) + 1]
           post == posts[path]
       IN  \E inHead \in BOOLEAN, readable \in BOOLEAN, titled \in BOOLEAN :
             LET o == EntryOutcome(post, inHead, readable, titled)
             IN  /\ inHead => CanBeInHead(path)
                 /\ entries' = IF o = "ok" THEN Append(entries, EntryCtx(post)) ELSE entries
                 /\ uninitRead' = IF o = "uninit" THEN uninitRead \cup {path} ELSE uninitRead
                 /\ pc' \in IF o = "ok" THEN {"entries"}
                            ELSE IF o = "panic" THEN {"panic"}
                            ELSE {"panic", "crash"}
    /\ UNCHANGED <<posts, now, nyield, walkErr, changed, log, selected, out>>

\* Mutant of PrintFeed: the feed is printed with the entries built so far,
\* before the closure has run for every selected record.
PrintFeedEager ==
    /\ pc = "entries"
    /\ out = None
    /\ out' = Some(entries)
    /\ pc' = IF Len(entries) = Len(selected) THEN "done" ELSE pc
    /\ UNCHANGED <<posts, now, nyield, walkErr, changed, log, selected, entries, uninitRead>>

\* main.rs:177-189  every entry is built; the template is read and rendered and
\* the feed is printed
PrintFeed ==
    /\ pc = "entries"
    /\ Len(entries) = Len(selected)
    /\ out' = Some(entries)
    /\ pc' = "done"
    /\ UNCHANGED <<posts, now, nyield, walkErr, changed, log, selected, entries, uninitRead>>

\* main.rs:177-187  read_to_string("feed.xml.in")?, add_template(..)? or
\* render(..)? returns the error from main
RenderFail ==
    /\ pc = "entries"
    /\ Len(entries) = Len(selected)
    /\ pc' = "error"
    /\ UNCHANGED <<posts, now, nyield, walkErr, changed, log, selected, entries, uninitRead, out>>

\* main(): one run of the program.
Next ==
    \/ ScanDir
    \/ ScanFail
    \/ OpenRepo
    \/ OpenFail
    \/ RevwalkErr
    \/ FindCommitFail
    \/ VisitCommit(FALSE)
    \/ DiffFail
    \/ DeltaPanic
    \/ EndWalk
    \/ ResolveHead
    \/ HeadFail
    \/ BuildEntry
    \/ PrintFeed
    \/ RenderFail

Spec == Init /\ [][Next]_vars

\* The history walk alone, with the log of the visited commits.
NextWalk ==
    \/ ScanDir
    \/ ScanFail
    \/ OpenRepo
    \/ OpenFail
    \/ RevwalkErr
    \/ FindCommitFail
    \/ VisitCommit(TRUE)
    \/ DiffFail
    \/ DeltaPanic
    \/ EndWalk

SpecWalk == Init /\ [][NextWalk]_vars
\* A repository with exactly three commits: the root commit adds
\* content/01.hello.md (path 1), the second commit modifies it and the third
\* adds content/02.world.md (path 2).  The times and the authors are free.
Scenario ==
    << [parents |-> 0, paths |-> {1}],
       [parents |-> 1, paths |-> {1}],
       [parents |-> 1, paths |-> {2}] >>

\* main.rs:108-110  content/ holds the two files of the scenario
ScenarioScan ==
    /\ pc = "scan"
    /\ posts' = InsertAll(posts, Ascending({1, 2}))
    /\ pc' = "open"
    /\ UNCHANGED <<now, nyield, walkErr, changed, log, selected, entries, uninitRead, out>>

\* main.rs:120-140  one iteration of the loop, for the next commit of the scenario
ScenarioVisit ==
    /\ pc = "walk"
    /\ nyield < Len(Scenario)
    /\ \E t \in NextTimes(now) : \E commit \in Commits(t) :
          /\ commit.parents = Scenario[nyield + 1].parents
          /\ commit.paths = Scenario[nyield + 1].paths
          /\ Visit(TRUE, commit)

\* main.rs:120,143  the walk is exhausted after the three commits
ScenarioEnd ==
    /\ nyield = Len(Scenario)
    /\ EndWalk

\* The run of main() on the repository of the scenario.
NextScenario ==
    \/ ScenarioScan
    \/ OpenRepo
    \/ ScenarioVisit
    \/ ScenarioEnd
    \/ ResolveHead
    \/ BuildEntry
    \/ PrintFeed

SpecScenario == Init /\ [][NextScenario]_vars

\* ================================================================ claims
\* The positions in the log of the single-parent commits with a delta whose
\* new-side path is p, and of the commits with n parents that change p.
Touches(p) == {i \in 1..Len(log) : log[i].parents = 1 /\ p \in log[i].paths}
ChangesBy(p, n) == {i \in 1..Len(log) : log[i].parents = n /\ p \in log[i].paths}

\* A record as insert_uninit left it.
Untouched(post) == post.initial = None /\ post.latest = Uninit /\ post.author = Uninit

\* The step visits one more commit, with n parents.
Visits(n) == Len(log') = Len(log) + 1 /\ log'[Len(log')].parents = n

\* C1: once a record's firstTouched (initial) is set, no later step of the walk
\* changes it, and when the walk has ended it is the time of the first
\* single-parent commit, in walk order, with a delta on the record's path
\* (unset when there is none).
C1_FirstTouchedSetOnce ==
    [][ /\ \A p \in DOMAIN posts :
              posts[p].initial # None => posts'[p].initial = posts[p].initial
        /\ pc' = "head" =>
              \A p \in DOMAIN posts' :
                 posts'[p].initial =
                    (IF Touches(p)' = {} THEN None ELSE Some(log'[Min(Touches(p)')].time))
      ]_vars

\* C1 witness: the walk has ended and a record was touched by two single-parent
\* commits of different times: the second one did not change initial.
C1_Witness ==
    /\ pc = "head"
    /\ \E p \in DOMAIN posts :
          /\ Cardinality(Touches(p)) >= 2
          /\ posts[p].initial # None
          /\ posts[p].latest # Written(posts[p].initial[1])

\* C2: when the walk has ended, a record touched by two or more single-parent
\* commits has the time and the author of the last of them in walk order as
\* lastTouched (latest) and lastAuthor (author), and no touching commit has a
\* later time than that one.
C2_LastTouchedIsLastCommit ==
    pc = "head" =>
       \A p \in DOMAIN posts :
          Cardinality(Touches(p)) >= 2 =>
             LET last == log[Max(Touches(p))]
             IN  /\ posts[p].latest = Written(last.time)
                 /\ posts[p].author = Written(last.author)
                 /\ \A i \in Touches(p) : log[i].time <= last.time

\* C2 witness: the walk has ended and a record was touched by two single-parent
\* commits of different times and different authors.
C2_Witness ==
    /\ pc = "head"
    /\ \E p \in DOMAIN posts : \E i \in Touches(p) : \E j \in Touches(p) :
          /\ i < j
          /\ log[i].time < log[j].time
          /\ log[i].author # log[j].author

\* C3: a step that visits a merge commit (two or more parents) changes no
\* record, and when the walk has ended a record whose path was changed by merge
\* commits only is as insert_uninit left it.
C3_MergeChangesNothing ==
    [][ /\ Visits(2) => posts' = posts
        /\ pc' = "head" =>
              \A p \in DOMAIN posts' :
                 (ChangesBy(p, 2)' # {} /\ ChangesBy(p, 1)' = {}) => Untouched(posts'[p])
      ]_vars

\* C3 witness: the walk has ended after a single-parent commit touched a record
\* and a later merge commit changed the same path and another record's path,
\* which no single-parent commit changed.
C3_Witness ==
    /\ pc = "head"
    /\ \E p \in DOMAIN posts : \E q \in DOMAIN posts :
          /\ Touches(p) # {}
          /\ \E i \in ChangesBy(p, 2) : i > Max(Touches(p)) /\ q \in log[i].paths
          /\ Touches(q) = {}

\* C4: a step that visits the root commit (no parent) changes no record.
C4_RootChangesNothing ==
    [][ Visits(0) => posts' = posts ]_vars

\* C4 witness: the last visited commit is a root commit that introduces the
\* file of a record, and the record is as insert_uninit left it.
C4_Witness ==
    /\ pc = "walk"
    /\ Len(log) >= 1
    /\ log[Len(log)].parents = 0
    /\ \E p \in DOMAIN posts : p \in log[Len(log)].paths /\ Untouched(posts[p])
\* The records a qualifying commit has touched: latest and author are written.
Initialized == {p \in DOMAIN posts : posts[p].latest # Uninit}

\* The values of n the selection is examined for.
Ns == 0..(NumPaths + 1)

\* C5: for every n, any two adjacent records of get_n_latest(n) whose
\* lastTouched (latest) is written are in descending order of it.
C5_SortedByLastTouched ==
    \A n \in Ns :
       LET r == get_n_latest(posts, n)
       IN  \A i \in 1..(Len(r) - 1) :
              (r[i] \in Initialized /\ r[i + 1] \in Initialized) =>
                 posts[r[i]].latest[1] >= posts[r[i + 1]].latest[1]

\* C6: for every n, get_n_latest(n) has at most n records, at most as many as
\* there are initialized records, and no record twice; the printed feed has at
\* most 20 entries.
C6_LengthBounds ==
    /\ \A n \in Ns :
          LET r == get_n_latest(posts, n)
          IN  /\ Len(r) <= n
              /\ Len(r) <= Cardinality(Initialized)
              /\ \A i \in 1..Len(r) : \A j \in 1..Len(r) : r[i] = r[j] => i = j
    /\ out # None => Len(out[1]) <= 20

\* C7: for every n, a record no single-parent commit has touched is not in
\* get_n_latest(n), or it comes after every touched record of the result.
C7_UntouchedExcludedOrLast ==
    \A n \in Ns :
       LET r == get_n_latest(posts, n)
       IN  \A i \in 1..Len(r) : \A j \in 1..Len(r) :
              (r[i] \notin Initialized /\ r[j] \in Initialized) => j < i

\* C8: in every state, latest and author of a record are both written or both
\* not, and initial is set exactly when they are written.
C8_InitializedTogether ==
    \A p \in DOMAIN posts :
       /\ (posts[p].latest = Uninit) <=> (posts[p].author = Uninit)
       /\ (posts[p].initial # None) <=> (posts[p].latest # Uninit)

\* C8 witness: during the walk one record is touched (all three fields
\* written) while another is still as insert_uninit left it.
C8_Witness ==
    /\ pc = "walk"
    /\ \E p \in DOMAIN posts : \E q \in DOMAIN posts :
          /\ posts[p].initial # None /\ posts[p].latest # Uninit /\ posts[p].author # Uninit
          /\ Untouched(posts[q])

\* C9: no run reads latest or author of a record that no qualifying commit has
\* touched: the run fails before any such read.  Stated for the runs in which
\* the revision walk yields no error, where every commit of the history is
\* visited.
C9_NoUninitRead == ~walkErr => uninitRead = {}

\* C10: once the revision walk has yielded an error for a commit, the run is
\* aborted: the walk does not go on and no feed is written.
C10_WalkErrorAborts == walkErr => (pc = "error" /\ out = None)
C12_ScenarioAsStated ==
    pc = "head" =>
       /\ get_n_latest(posts, 2) = <<1, 2>>
       /\ posts[1].initial = Some(log[1].time)
       /\ posts[1].latest = Written(log[2].time)

\* C12 as amended: at the end of the walk of the scenario get_n_latest(2) is
\* [02.world.md, 01.hello.md], the most recently touched first; 01.hello.md has
\* the time of the second commit as firstTouched and as lastTouched (the root
\* commit attributes nothing), and 02.world.md the time of the third commit as
\* both.
C12_Scenario ==
    pc = "head" =>
       /\ get_n_latest(posts, 2) = <<2, 1>>
       /\ posts[1].initial = Some(log[2].time)
       /\ posts[1].latest = Written(log[2].time)
       /\ posts[2].initial = Some(log[3].time)
       /\ posts[2].latest = Written(log[3].time)
       /\ posts[2].latest[1] >= posts[1].latest[1]

\* C12 witness: the walk of the scenario has ended and the three commits have
\* three different times.
C12_Witness ==
    /\ pc = "head"
    /\ Len(log) = 3
    /\ log[1].time < log[2].time
    /\ log[2].time < log[3].time
\* Two records of the result r, at positions i < j, with the same written
\* lastTouched (latest).
Tie(r, i, j) ==
    /\ i < j
    /\ r[i] \in Initialized
    /\ r[j] \in Initialized
    /\ posts[r[i]].latest = posts[r[j]].latest

C14_OnlyDeltaPathsChange ==
    [][ /\ Visits(1) =>
              \A p \in DOMAIN posts :
                 p \notin log'[Len(log')].paths => posts'[p] = posts[p]
        /\ pc # "scan" => DOMAIN posts' = DOMAIN posts
      ]_vars

\* C14 witness: the last visited commit is a single-parent commit that touched
\* the record of p and not the record of q, which an earlier commit had
\* touched.
C14_Witness ==
    /\ pc = "walk"
    /\ Len(log) >= 2
    /\ log[Len(log)].parents = 1
    /\ \E p \in DOMAIN posts : \E q \in DOMAIN posts :
          /\ p \in log[Len(log)].paths
          /\ q \notin log[Len(log)].paths
          /\ posts[p].latest = Written(log[Len(log)].time)
          /\ posts[q].latest # Uninit
          /\ posts[q].latest # posts[p].latest
\* C16: the selection (the step that ends the walk and calls get_n_latest)
\* and every later step of the run change no field of a record and no key of
\* the registry.
C16_RegistryReadOnlyAfterWalk ==
    [][ (pc \in {"head", "entries"} \/ (pc = "walk" /\ pc' = "head")) => posts' = posts ]_vars

\* C16 witness: the feed was printed with an entry for a touched record, and
\* every entry still agrees with the record it was built from.
C16_Witness ==
    /\ pc = "done"
    /\ Len(entries) >= 1
    /\ \A i \in 1..Len(entries) :
          /\ posts[selected[i]].latest = Written(entries[i].updated)
          /\ posts[selected[i]].initial = Some(entries[i].published)

\* C17: in every state, a record with firstTouched (initial) set has
\* firstTouched <= lastTouched (latest), and the published time of every built
\* entry is not later than its updated time.
C17_FirstNotAfterLast ==
    /\ \A p \in DOMAIN posts :
          posts[p].initial # None =>
             /\ posts[p].latest # Uninit
             /\ posts[p].initial[1] <= posts[p].latest[1]
    /\ \A i \in 1..Len(entries) : entries[i].published <= entries[i].updated

\* C17 witness: a record was touched by two commits of different times, so
\* firstTouched < lastTouched.
C17_Witness ==
    \E p \in DOMAIN posts :
       /\ posts[p].initial # None
       /\ posts[p].latest # Uninit
       /\ posts[p].initial[1] < posts[p].latest[1]
====
